---- MODULE Spec2Model ----
(***************************************************************************)
(* A model of agentic_codegen: the action parser (parsing.py), the prompt  *)
(* snapshot (prompts.py) and the phase-driven agent loop Agent.run with    *)
(* its dispatcher (agent.py).                                              *)
(*                                                                         *)
(* A Python str is a sequence of chunks; a chunk is an atom of text (a     *)
(* fence marker, a run of whitespace, a JSON document, a fixed message).   *)
(* Concatenation and f-strings are \o on chunk sequences.                  *)
(***************************************************************************)
EXTENDS Integers, Sequences, FiniteSets, TLC

VARIABLES
    max_iterations,     \* AgentConfig.max_iterations
    max_phase_retries,  \* AgentConfig.max_phase_retries
    pc,                 \* position in Agent.run: "top", "generate", "returned", "raised";
                        \* in a call of the parser alone: "parse", "parsed", "parse_raised";
                        \* in a call of run_checks alone: "check", "checked";
                        \* in a call of build_prompt alone: "prompt", "prompted"
    phase,              \* local phase
    iteration,          \* local iteration
    phase_retries,      \* local phase_retries
    code,               \* local code
    tests,              \* local tests
    last_checks,        \* local last_checks (list of str)
    snapshot,           \* local snapshot (the MemorySnapshot built last)
    model_text,         \* local model_text (the generator's last answer)
    action,             \* local action (None when parsing failed)
    err,                \* local err
    result,             \* local result, or the exception _dispatch raised
    tool_call,          \* the last call _dispatch made to a tool collaborator
    ret,                \* the AgentResult returned by run
    raised_exc,         \* the exception that left run, and the call it came from
    llm_calls,          \* number of calls made to llm.generate
    attempts,           \* history: loop passes begun since the phase was entered
    parse_failures,     \* history: how many of those ended in a parse failure
    terminal_dispatched, \* history: save_file or terminate was dispatched in this run
    on_happy_path,      \* history: every pass so far named the phase's tool, which
                        \* returned, with ok=true when it was run_checks
    prompt,             \* local prompt (built from the snapshot)
    last_verify         \* history: the arguments and the result of the last
                        \* run_checks call that returned

vars == <<max_iterations, max_phase_retries, pc, phase, iteration, phase_retries,
          code, tests, last_checks, snapshot, model_text, action, err, result, tool_call,
          ret, raised_exc, llm_calls, attempts, parse_failures, terminal_dispatched,
          on_happy_path, prompt, last_verify>>

----------------------------------------------------------------------------
(* Bounds of the model *)

MaxIterationsBound == 5
MaxPhaseRetriesBound == 2
MaxTextLen == 3
MaxTestMethods == 3
MaxChecksLen == 11

----------------------------------------------------------------------------
(* prompts.py: Phase *)

IMPLEMENT == "implement"
DOCS == "docs"
TESTS == "tests"
EVALUATE == "evaluate"
EXPORT == "export"
FIX == "fix"

Phase == {IMPLEMENT, DOCS, TESTS, EVALUATE, EXPORT, FIX}

----------------------------------------------------------------------------
(* Text chunks. <fence> stands for the run of three backquotes. *)

WS == " "
FENCE == "<fence>"
OPEN_LC == "<fence>action"
OPEN_UC == "<fence>ACTION"
PROSE == "Sure, here is the action."

\* chunks matched by the marker <fence>action under re.IGNORECASE
OpenFences == {OPEN_LC, OPEN_UC}

\* chunks that begin with three backquotes
Backticks == OpenFences \cup {FENCE}

\* str.strip() on a chunk sequence
RECURSIVE LStrip(_)
LStrip(s) == IF s # <<>> /\ Head(s) = WS THEN LStrip(Tail(s)) ELSE s

RECURSIVE RStrip(_)
RStrip(s) ==
    IF s # <<>> /\ s[Len(s)] = WS THEN RStrip(SubSeq(s, 1, Len(s) - 1)) ELSE s

Strip(s) == RStrip(LStrip(s))

----------------------------------------------------------------------------
(* JSON documents the generator can put in a block, and json.loads on them *)

DOC_WRITE_CODE == "{\"tool_name\":\"write_code\",\"args\":{}}"
DOC_WRITE_DOCS == "{\"tool_name\":\"write_docs\",\"args\":{}}"
DOC_WRITE_TESTS == "{\"tool_name\":\"write_tests\",\"args\":{}}"
DOC_RUN_CHECKS == "{\"tool_name\":\"run_checks\",\"args\":{}}"
DOC_SAVE_FILE == "{\"tool_name\":\"save_file\",\"args\":{}}"
DOC_TERMINATE == "{\"tool_name\":\"terminate\",\"args\":{\"summary\":\"giving up\"}}"
DOC_TERMINATE_OK == "{\"tool_name\":\"terminate\",\"args\":{\"ok\":true}}"
DOC_TERMINATE_FAIL == "{\"tool_name\":\"terminate\",\"args\":{\"ok\":false,\"summary\":\"giving up\"}}"
DOC_UNKNOWN == "{\"tool_name\":\"deploy\",\"args\":{}}"
DOC_UNKNOWN_COLON == "{\"tool_name\":\"write_code: RuntimeError: boom\"}"
DOC_PADDED == "{\"tool_name\":\" write_code \"}"
DOC_BLANK_NAME == "{\"tool_name\":\"  \",\"args\":{}}"
DOC_INT_NAME == "{\"tool_name\":3,\"args\":{}}"
DOC_NO_NAME == "{\"args\":{}}"
DOC_NULL_ARGS == "{\"tool_name\":\"write_code\",\"args\":null}"
DOC_LIST_ARGS == "{\"tool_name\":\"write_code\",\"args\":[]}"
DOC_STR_ARGS == "{\"tool_name\":\"write_code\",\"args\":\"x\"}"
DOC_INT_ARGS == "{\"tool_name\":\"write_code\",\"args\":7}"
DOC_LIST == "[1, 2]"
DOC_DEEP == "[[[[ ... nested deeper than the interpreter's recursion limit ... ]]]]"
DOC_BIGINT == "{\"tool_name\":\"write_code\",\"args\":{\"n\":<an integer of 5000 digits>}}"
DOC_SYNTAX == "{\"tool_name\": "

\* a tool name no branch of _dispatch knows, spelled like the head of a diagnostic
COLON_NAME == <<"write_code", ": ", "RuntimeError", ": ", "boom">>

\* a JSON value as validate_action_obj and _dispatch read it: the value's type, and
\* for a dict its entries "tool_name" and "args"
NoStr == <<>>
Absent == [type |-> "absent", val |-> NoStr]
JStr(s) == [type |-> "str", val |-> s]
JInt == [type |-> "int", val |-> NoStr]

\* the value under "args": its type and, for a dict, its entries "ok" and "summary"
ArgsOf(t, ok, summary) == [type |-> t, ok |-> ok, summary |-> summary]
EmptyDict == ArgsOf("dict", "absent", Absent)
ArgsAbsent == ArgsOf("absent", "absent", Absent)

JDict(tn, args) == [type |-> "dict", args |-> args, tool_name |-> tn]
JOther(t) == [type |-> t, args |-> ArgsAbsent, tool_name |-> Absent]

json_loads(doc) ==
    CASE doc = DOC_WRITE_CODE -> JDict(JStr(<<"write_code">>), EmptyDict)
      [] doc = DOC_WRITE_DOCS -> JDict(JStr(<<"write_docs">>), EmptyDict)
      [] doc = DOC_WRITE_TESTS -> JDict(JStr(<<"write_tests">>), EmptyDict)
      [] doc = DOC_RUN_CHECKS -> JDict(JStr(<<"run_checks">>), EmptyDict)
      [] doc = DOC_SAVE_FILE -> JDict(JStr(<<"save_file">>), EmptyDict)
      [] doc = DOC_TERMINATE ->
            JDict(JStr(<<"terminate">>), ArgsOf("dict", "absent", JStr(<<"giving up">>)))
      [] doc = DOC_TERMINATE_OK ->
            JDict(JStr(<<"terminate">>), ArgsOf("dict", "true", Absent))
      [] doc = DOC_TERMINATE_FAIL ->
            JDict(JStr(<<"terminate">>), ArgsOf("dict", "false", JStr(<<"giving up">>)))
      [] doc = DOC_UNKNOWN -> JDict(JStr(<<"deploy">>), EmptyDict)
      [] doc = DOC_UNKNOWN_COLON -> JDict(JStr(COLON_NAME), ArgsAbsent)
      [] doc = DOC_PADDED -> JDict(JStr(<<WS, "write_code", WS>>), ArgsAbsent)
      [] doc = DOC_BLANK_NAME -> JDict(JStr(<<WS, WS>>), EmptyDict)
      [] doc = DOC_INT_NAME -> JDict(JInt, EmptyDict)
      [] doc = DOC_NO_NAME -> JDict(Absent, EmptyDict)
      [] doc = DOC_NULL_ARGS ->
            JDict(JStr(<<"write_code">>), ArgsOf("null", "absent", Absent))
      [] doc = DOC_LIST_ARGS ->
            JDict(JStr(<<"write_code">>), ArgsOf("list", "absent", Absent))
      [] doc = DOC_STR_ARGS ->
            JDict(JStr(<<"write_code">>), ArgsOf("str", "absent", Absent))
      [] doc = DOC_INT_ARGS ->
            JDict(JStr(<<"write_code">>), ArgsOf("int", "absent", Absent))
      [] doc = DOC_LIST -> JOther("list")
      [] doc = DOC_DEEP -> JOther("RecursionError")
      [] doc = DOC_BIGINT -> JOther("ValueError")
      [] OTHER -> JOther("JSONDecodeError")

----------------------------------------------------------------------------
(* parsing.py *)

\* a value-or-exception: the callee returned val, or raised ActionParseError(err),
\* or let an exception of another class through
Return(v) == [err |-> NoStr, val |-> v, raised |-> FALSE, etype |-> ""]
Raise(T, e) == [err |-> e, val |-> T, raised |-> TRUE, etype |-> "ActionParseError"]
Reraise(T, etype, e) == [err |-> e, val |-> T, raised |-> TRUE, etype |-> etype]

\* ACTION_FENCE_RE.search(text): the first opening marker that has a later run of
\* three backquotes, and the lazy body up to the nearest such run
FenceCloses(text, i) == {j \in (i + 1)..Len(text) : text[j] \in Backticks}
\* mutant: any run of three backquotes opens a block
FenceOpens_AnyFence(text) ==
    {i \in 1..Len(text) : text[i] \in Backticks /\ FenceCloses(text, i) # {}}

FenceOpens(text) ==
    {i \in 1..Len(text) : text[i] \in OpenFences /\ FenceCloses(text, i) # {}}
Min(S) == CHOOSE m \in S : \A n \in S : m <= n
\* mutant: the last block is taken, not the first
FenceBody_LastBlock(text) ==
    LET i == CHOOSE m \in FenceOpens(text) : \A n \in FenceOpens(text) : m >= n
        j == Min(FenceCloses(text, i))
    IN  Strip(SubSeq(text, i + 1, j - 1))

FenceBody(text) ==
    LET i == Min(FenceOpens(text))
        j == Min(FenceCloses(text, i))
    IN  Strip(SubSeq(text, i + 1, j - 1))

NoBody == <<>>
extract_action_block(text) ==
    IF Strip(text) = <<>>
    THEN Raise(NoBody, <<"Empty model response; expected an <fence>action<fence> block.">>)
    ELSE IF FenceOpens(text) = {}
    THEN Raise(NoBody, <<"No <fence>action<fence> block found in model response.">>)
    ELSE IF FenceBody(text) = <<>> \/ Strip(FenceBody(text)) = <<>>
    THEN Raise(NoBody, <<"Found <fence>action<fence> block but it was empty.">>)
    ELSE Return(Strip(FenceBody(text)))

\* the exceptions json.loads raises that are not json.JSONDecodeError
DecoderFaults == {"RecursionError", "ValueError"}

\* json.loads takes one document, with whitespace around it allowed; the except
\* clause names json.JSONDecodeError only
parse_action_json(block_body) ==
    LET obj == IF Len(Strip(block_body)) = 1
               THEN json_loads(Strip(block_body)[1])
               ELSE JOther("JSONDecodeError")
    IN  IF obj.type = "JSONDecodeError"
        THEN Raise(JOther("none"),
                   <<"Invalid JSON inside action block: ", "JSONDecodeError">>)
        ELSE IF obj.type \in DecoderFaults
        THEN Reraise(JOther("none"), obj.type, <<"json.loads: ", obj.type>>)
        ELSE IF obj.type # "dict"
        THEN Raise(JOther("none"), <<"Action JSON must be a JSON object (dict).">>)
        ELSE Return(obj)

\* Action(tool_name, args); NoAction is None
Action(tool_name, args) == [args |-> args, tool_name |-> tool_name]
NoAction == Action(NoStr, ArgsAbsent)

validate_action_obj(obj) ==
    LET tool_name == obj.tool_name
        args == IF obj.args.type \in {"absent", "null"} THEN EmptyDict ELSE obj.args
    IN  IF tool_name.type # "str" \/ Strip(tool_name.val) = <<>>
        THEN Raise(NoAction, <<"Action JSON missing valid 'tool_name' (string).">>)
        ELSE IF args.type # "dict"
        THEN Raise(NoAction, <<"Action JSON 'args' must be an object/dict.">>)
        ELSE Return(Action(Strip(tool_name.val), args))

parse_action(text) ==
    LET body == extract_action_block(text)
    IN  IF body.raised THEN Reraise(NoAction, body.etype, body.err)
        ELSE LET obj == parse_action_json(body.val)
             IN  IF obj.raised THEN Reraise(NoAction, obj.etype, obj.err)
                 ELSE validate_action_obj(obj.val)

\* (action, error_message); except ActionParseError: any other exception of
\* parse_action leaves safe_parse_action (raised, with its class and message)
safe_parse_action(text) ==
    LET r == parse_action(text)
    IN  IF ~r.raised
        THEN [action |-> r.val, err |-> NoStr, raised |-> FALSE,
              etype |-> "", is_none |-> FALSE]
        ELSE IF r.etype = "ActionParseError"
        THEN [action |-> NoAction, err |-> r.err, raised |-> FALSE,
              etype |-> "", is_none |-> TRUE]
        ELSE [action |-> NoAction, err |-> r.err, raised |-> TRUE,
              etype |-> r.etype, is_none |-> TRUE]

----------------------------------------------------------------------------
(* The collaborators of Agent: the generator (llm) and the tools (actions) *)

\* artifacts the tools can produce
CodeVals == {<<"def f(): v1">>, <<"def f(): v2">>}
TestVals == {<<"def test_f(): ...">>}
CheckLists == {<< <<"Not enough tests: found 0, expected >= 3.">>, <<"unittest failed: E">> >>}
FilePaths == [tests |-> <<"generated/test_f.py">>, module |-> <<"generated/f.py">>]
NoPaths == [none |-> TRUE]

\* a collaborator call ends by returning a dict or by raising an exception
Returned(res) == [result |-> res, raised |-> FALSE, etype |-> "", msg |-> NoStr]
Raised(etype, msg) == [result |-> [none |-> TRUE], raised |-> TRUE, etype |-> etype, msg |-> msg]
\* the classes of the faults below: all derive from Exception
ExceptionTypes == {"RuntimeError", "KeyError", "ValueError", "LLMError"}

NoDispatch == Returned([none |-> TRUE])
ToolFaults == {Raised("RuntimeError", <<"boom">>), Raised("KeyError", <<"'name'">>)}

\* a fault whose message reads like the tail of another diagnostic
ColonFault ==
    Raised("RuntimeError",
           <<"boom", ": ", "ValueError", ": ", "Unknown tool_name: ">> \o COLON_NAME)

\* what each tool collaborator may do when called (section 6 of the tools' contracts)
ToolOutcomes(tool_name) ==
    CASE tool_name = <<"write_code">> ->
            {Returned([code |-> c]) : c \in CodeVals} \cup ToolFaults \cup {ColonFault}
      [] tool_name = <<"write_docs">> -> {Returned([code |-> c]) : c \in CodeVals} \cup ToolFaults
      [] tool_name = <<"write_tests">> -> {Returned([tests |-> t]) : t \in TestVals} \cup ToolFaults
      [] tool_name = <<"run_checks">> ->
            {Returned([ok |-> TRUE, checks |-> <<>>])}
            \cup {Returned([ok |-> FALSE, checks |-> cs]) : cs \in CheckLists}
            \cup ToolFaults
      [] tool_name = <<"save_file">> -> {Returned([file_paths |-> FilePaths])} \cup ToolFaults
      [] OTHER -> {Returned([none |-> TRUE])}

\* mutant: the repair phase names a tool the dispatcher does not know
ExpectedTool_FixUnknown(p) ==
    CASE p = IMPLEMENT -> <<"write_code">>
      [] p = DOCS -> <<"write_docs">>
      [] p = TESTS -> <<"write_tests">>
      [] p = EVALUATE -> <<"run_checks">>
      [] p = EXPORT -> <<"save_file">>
      [] p = FIX -> <<"fix_code">>

\* _phase_instruction: the tool each phase asks the generator to name
ExpectedTool(p) ==
    CASE p = IMPLEMENT -> <<"write_code">>
      [] p = DOCS -> <<"write_docs">>
      [] p = TESTS -> <<"write_tests">>
      [] p = EVALUATE -> <<"run_checks">>
      [] p = EXPORT -> <<"save_file">>
      [] p = FIX -> <<"write_code">>

\* the texts the generator may answer with
Block(doc) == <<OPEN_LC, WS, doc, WS, FENCE>>
GenTexts ==
    {Block(doc) : doc \in {DOC_WRITE_CODE, DOC_WRITE_DOCS, DOC_WRITE_TESTS, DOC_RUN_CHECKS,
                           DOC_SAVE_FILE, DOC_TERMINATE, DOC_TERMINATE_FAIL, DOC_UNKNOWN,
                           DOC_UNKNOWN_COLON, DOC_SYNTAX, DOC_BIGINT}}
    \cup {<<PROSE>>}

----------------------------------------------------------------------------
(* agent.py: AgentResult, Agent._dispatch *)

\* mutant: the result drops the artifact locations
AgentResult_NoPaths(ok, summary, file_paths, iterations) ==
    [ok |-> ok, summary |-> summary, file_paths |-> NoPaths, iterations |-> iterations]

AgentResult(ok, summary, file_paths, iterations) ==
    [ok |-> ok, summary |-> summary, file_paths |-> file_paths, iterations |-> iterations]
NoResult == [none |-> TRUE]

\* the arguments of a collaborator call
NoCall == [tool |-> <<>>]
Call(tool_name, c, t, checks) ==
    [code |-> c, tests |-> t, tool |-> tool_name, failed_checks |-> checks]

KnownTools == {<<"write_code">>, <<"write_docs">>, <<"write_tests">>, <<"run_checks">>,
               <<"save_file">>}

\* mutant: the passthrough takes ok from the instruction, False when it has none
DispatchTerminate_OkFromArgs(args) ==
    Returned([ok |-> args.ok = "true",
              summary |-> IF args.summary.type = "absent" THEN <<"Terminated.">>
                          ELSE args.summary.val])

\* the passthrough of terminate: {"ok": True, "summary": args.get("summary", "Terminated.")}
DispatchTerminate(args) ==
    Returned([ok |-> TRUE,
              summary |-> IF args.summary.type = "absent" THEN <<"Terminated.">>
                          ELSE args.summary.val])

\* _dispatch: the collaborator's outcome `out` for a known tool, the passthrough for
\* terminate, ValueError for any other name
Dispatch(tool_name, args, out) ==
    IF tool_name \in KnownTools THEN out
    ELSE IF tool_name = <<"terminate">> THEN DispatchTerminate(args)
    ELSE Raised("ValueError", <<"Unknown tool_name: ">> \o tool_name)

\* mutant: write_code is called without the failed checks
DispatchCall_DropsChecks(tool_name, c, t, checks) ==
    IF tool_name \in {<<"write_code">>, <<"write_docs">>, <<"write_tests">>}
    THEN Call(tool_name, c, <<>>, <<>>)
    ELSE IF tool_name \in {<<"run_checks">>, <<"save_file">>} THEN Call(tool_name, c, t, <<>>)
    ELSE NoCall

DispatchCall(tool_name, c, t, checks) ==
    IF tool_name = <<"write_code">> THEN Call(tool_name, c, <<>>, checks)
    ELSE IF tool_name \in {<<"write_docs">>, <<"write_tests">>} THEN Call(tool_name, c, <<>>, <<>>)
    ELSE IF tool_name \in {<<"run_checks">>, <<"save_file">>} THEN Call(tool_name, c, t, <<>>)
    ELSE NoCall

----------------------------------------------------------------------------
(* agent.py: Agent.run *)

\* "\n".join(lines)
RECURSIVE Join(_)
Join(lines) ==
    IF lines = <<>> THEN <<>>
    ELSE IF Len(lines) = 1 THEN lines[1]
    ELSE lines[1] \o <<"\n">> \o Join(Tail(lines))

\* the locals of run that a loop pass rewrites
Locals ==
    [phase |-> phase, phase_retries |-> phase_retries, code |-> code, tests |-> tests,
     last_checks |-> last_checks]

\* no run_checks call has returned yet
NoVerify == [none |-> TRUE]

\* MemorySnapshot(...), with last_checks if last_checks else None
MemorySnapshot(l, i) ==
    [phase |-> l.phase, iteration |-> i, phase_retries |-> l.phase_retries,
     code |-> l.code, tests |-> l.tests,
     last_checks |-> [val |-> l.last_checks, is_none |-> l.last_checks = <<>>]]
NoSnapshot == [none |-> TRUE]

----------------------------------------------------------------------------
(* prompts.py: build_prompt *)

AGENT_RULES == "You are an agentic code generation assistant. ..."
SPEC_TEXT == "str(spec)"
RULE == "\n---\n"

\* how many of the last checks the prompt renders: last_checks[:10]
MaxRenderedChecks == 10

\* the task each phase's instruction states
PhaseTask(p) ==
    CASE p = IMPLEMENT -> "Task: Choose the next tool to generate code."
      [] p = DOCS -> "Task: Choose the next tool to add docstrings."
      [] p = TESTS -> "Task: Choose the next tool to generate unittest tests."
      [] p = EVALUATE -> "Task: Choose the next tool to run checks."
      [] p = EXPORT -> "Task: Choose the next tool to save files."
      [] OTHER -> "Task: Choose the next tool to fix failures described in LAST_CHECKS."

\* _phase_instruction(snapshot)
phase_instruction(s) ==
    <<PhaseTask(s.phase), "\n\nReturn an action:\n", "- tool_name: ">>
        \o ExpectedTool(s.phase) \o <<"\n- args: {}\n">>

\* the messages rendered, each behind "- "
RenderedChecks(checks) ==
    [i \in 1..(IF Len(checks) < MaxRenderedChecks THEN Len(checks) ELSE MaxRenderedChecks)
        |-> <<"- ">> \o checks[i]]

\* the optional sections of the prompt: code, tests and checks, each only when it
\* is not blank (not empty)
PromptSections(s) ==
    (IF Strip(s.code) # <<>> THEN << <<"\nCURRENT_CODE:\n">> \o s.code >> ELSE <<>>)
    \o (IF Strip(s.tests) # <<>> THEN << <<"\nCURRENT_TESTS:\n">> \o s.tests >> ELSE <<>>)
    \o (IF ~s.last_checks.is_none /\ s.last_checks.val # <<>>
        THEN << <<"\nLAST_CHECKS:\n">> \o Join(RenderedChecks(s.last_checks.val)) >>
        ELSE <<>>)

build_prompt(s) ==
    Join(<< <<AGENT_RULES>>, <<RULE>>, <<"PHASE: ", s.phase>>,
            <<"ITERATION: ", ToString(s.iteration)>>,
            <<"PHASE_RETRIES: ", ToString(s.phase_retries)>>,
            <<"\nSPEC:\n", SPEC_TEXT>> >>
         \o PromptSections(s)
         \o << <<RULE>>, phase_instruction(s) >>)
NoPrompt == <<>>

\* mutant: a fault sends the run back to the first phase
Fault_ResetsPhase(l, diagnostic) ==
    [l EXCEPT !.last_checks = <<diagnostic>>, !.phase_retries = @ + 1, !.phase = IMPLEMENT]

\* mutant: a fault costs two retries
Fault_CountsTwice(l, diagnostic) ==
    [l EXCEPT !.last_checks = <<diagnostic>>, !.phase_retries = @ + 2]

\* a fault: last_checks = [diagnostic]; phase_retries += 1
Fault(l, diagnostic) ==
    [l EXCEPT !.last_checks = <<diagnostic>>, !.phase_retries = @ + 1]

ParseDiagnostic(e) == <<"ActionParseError: ">> \o e
\* mutant: the diagnostic leaves out the exception's type
ToolDiagnostic_NoType(tool_name, etype, msg) ==
    <<"ToolExecutionError in ">> \o tool_name \o <<": ">> \o msg

ToolDiagnostic(tool_name, etype, msg) ==
    <<"ToolExecutionError in ">> \o tool_name \o <<": ", etype, ": ">> \o msg
UnknownDiagnostic(tool_name) == <<"Unknown tool_name: ">> \o tool_name

\* mutant: the run fails when the budget is reached, not when it is exceeded
RetriesExceeded_AtBudget(l) == l.phase_retries >= max_phase_retries

\* if phase_retries > self.config.max_phase_retries
RetriesExceeded(l) == l.phase_retries > max_phase_retries

\* the branches that apply a tool's result and advance the phase machine
\* mutant: a repair goes straight back to the evaluation
ApplyWriteCode_FixToEvaluate(l, res) ==
    [l EXCEPT !.code = res.code, !.last_checks = <<>>,
              !.phase = IF l.phase = FIX THEN EVALUATE ELSE DOCS, !.phase_retries = 0]

\* mutant: code rewritten in phase Export stays ready for export
ApplyWriteCode_KeepsExport(l, res) ==
    [l EXCEPT !.code = res.code, !.last_checks = <<>>,
              !.phase = IF l.phase = EXPORT THEN EXPORT ELSE DOCS, !.phase_retries = 0]

ApplyWriteCode(l, res) ==
    [l EXCEPT !.code = res.code, !.last_checks = <<>>, !.phase = DOCS,
              !.phase_retries = 0]

\* mutant: the documented code goes to the evaluation without tests
ApplyWriteDocs_SkipsTests(l, res) ==
    [l EXCEPT !.code = res.code, !.last_checks = <<>>, !.phase = EVALUATE,
              !.phase_retries = 0]

ApplyWriteDocs(l, res) ==
    [l EXCEPT !.code = res.code, !.last_checks = <<>>, !.phase = TESTS,
              !.phase_retries = 0]

\* mutant: tests written outside phase Tests leave the phase as it is
ApplyWriteTests_OnlyFromTests(l, res) ==
    [l EXCEPT !.tests = res.tests, !.last_checks = <<>>,
              !.phase = IF l.phase = TESTS THEN EVALUATE ELSE l.phase, !.phase_retries = 0]

ApplyWriteTests(l, res) ==
    [l EXCEPT !.tests = res.tests, !.last_checks = <<>>, !.phase = EVALUATE,
              !.phase_retries = 0]

\* mutant: a failed verification is counted as a retry
ApplyRunChecks_CountsRetry(l, res) ==
    IF res.ok
    THEN [l EXCEPT !.last_checks = res.checks, !.phase = EXPORT, !.phase_retries = 0]
    ELSE [l EXCEPT !.last_checks = res.checks, !.phase = FIX, !.phase_retries = @ + 1]

ApplyRunChecks(l, res) ==
    IF res.ok
    THEN [l EXCEPT !.last_checks = res.checks, !.phase = EXPORT, !.phase_retries = 0]
    ELSE [l EXCEPT !.last_checks = res.checks, !.phase = FIX, !.phase_retries = 0]

\* an exception on its way out of run
NoExc == [none |-> TRUE]
Exc(origin, etype, msg) == [etype |-> etype, msg |-> msg, origin |-> origin]

\* mutant: the handler lets the dispatcher's own ValueError through
CaughtByRun_NotValueError(etype) == etype \in ExceptionTypes \ {"ValueError"}

\* except Exception as e
CaughtByRun(etype) == etype \in ExceptionTypes

\* the end of a loop pass: iteration += 1 and back to the while test
Continue(l) ==
    /\ phase' = l.phase
    /\ phase_retries' = l.phase_retries
    /\ code' = l.code
    /\ tests' = l.tests
    /\ last_checks' = l.last_checks
    /\ iteration' = iteration + 1
    /\ pc' = "top"
    /\ ret' = ret
    /\ raised_exc' = raised_exc

\* return AgentResult(...)
ReturnResult(l, res) ==
    /\ phase' = l.phase
    /\ phase_retries' = l.phase_retries
    /\ code' = l.code
    /\ tests' = l.tests
    /\ last_checks' = l.last_checks
    /\ iteration' = iteration
    /\ pc' = "returned"
    /\ ret' = res
    /\ raised_exc' = raised_exc

\* an exception no handler of run catches
Propagate(exc) ==
    /\ pc' = "raised"
    /\ raised_exc' = exc
    /\ UNCHANGED <<phase, phase_retries, code, tests, last_checks, iteration, ret>>

\* mutant: a counted fault that does not end the run leaves iteration as it is
RetryOrFail_KeepsIteration(l, summary) ==
    IF RetriesExceeded(l)
    THEN ReturnResult(l, AgentResult(FALSE, summary, NoPaths, iteration + 1))
    ELSE /\ phase' = l.phase
         /\ phase_retries' = l.phase_retries
         /\ code' = l.code
         /\ tests' = l.tests
         /\ last_checks' = l.last_checks
         /\ iteration' = iteration
         /\ pc' = "top"
         /\ ret' = ret
         /\ raised_exc' = raised_exc

\* a counted fault: fail the run when the retry budget is exceeded, else go on
RetryOrFail(l, summary) ==
    IF RetriesExceeded(l)
    THEN ReturnResult(l, AgentResult(FALSE, summary, NoPaths, iteration + 1))
    ELSE Continue(l)

\* mutant: one loop pass too many
WhileTest_OffByOne == iteration <= max_iterations

\* while iteration < self.config.max_iterations
WhileTest == iteration < max_iterations

Init ==
    /\ max_iterations \in 0..MaxIterationsBound
    /\ max_phase_retries \in 0..MaxPhaseRetriesBound
    /\ pc = "top"
    /\ phase = IMPLEMENT
    /\ iteration = 0
    /\ phase_retries = 0
    /\ code = <<>>
    /\ tests = <<>>
    /\ last_checks = <<>>
    /\ snapshot = NoSnapshot
    /\ model_text = <<>>
    /\ action = NoAction
    /\ err = NoStr
    /\ result = NoDispatch
    /\ tool_call = NoCall
    /\ ret = NoResult
    /\ raised_exc = NoExc
    /\ llm_calls = 0
    /\ attempts = 0
    /\ parse_failures = 0
    /\ terminal_dispatched = FALSE
    /\ on_happy_path = TRUE
    /\ prompt = NoPrompt
    /\ last_verify = NoVerify

\* while iteration < max_iterations: snapshot = MemorySnapshot(...); build_prompt
BuildSnapshot ==
    /\ pc = "top"
    /\ WhileTest
    /\ snapshot' = MemorySnapshot(Locals, iteration)
    /\ prompt' = build_prompt(MemorySnapshot(Locals, iteration))
    /\ pc' = "generate"
    /\ UNCHANGED <<max_iterations, max_phase_retries, phase, iteration, phase_retries,
                   code, tests, last_checks, model_text, action, err, result, tool_call,
                   ret, raised_exc, llm_calls, attempts, parse_failures,
                   terminal_dispatched, on_happy_path, last_verify>>

\* mutant: the budget failure reports a pass that never ran
LoopExit_CountsNextPass ==
    /\ pc = "top"
    /\ ~WhileTest
    /\ pc' = "returned"
    /\ ret' = AgentResult(FALSE, <<"Exceeded max_iterations=", ToString(max_iterations), ".">>,
                          NoPaths, iteration + 1)
    /\ UNCHANGED <<max_iterations, max_phase_retries, phase, iteration, phase_retries,
                   code, tests, last_checks, snapshot, model_text, action, err, result,
                   tool_call, raised_exc, llm_calls, attempts, parse_failures,
                   terminal_dispatched, on_happy_path, prompt, last_verify>>

\* the while test fails: return AgentResult(ok=False, "Exceeded max_iterations=...")
LoopExit ==
    /\ pc = "top"
    /\ ~WhileTest
    /\ pc' = "returned"
    /\ ret' = AgentResult(FALSE, <<"Exceeded max_iterations=", ToString(max_iterations), ".">>,
                          NoPaths, iteration)
    /\ UNCHANGED <<max_iterations, max_phase_retries, phase, iteration, phase_retries,
                   code, tests, last_checks, snapshot, model_text, action, err, result,
                   tool_call, raised_exc, llm_calls, attempts, parse_failures,
                   terminal_dispatched, on_happy_path, prompt, last_verify>>

\* self.llm.generate(prompt) raises: nothing in run catches it
GenerateRaises ==
    /\ pc = "generate"
    /\ llm_calls' = llm_calls + 1
    /\ attempts' = attempts + 1
    /\ Propagate(Exc("llm.generate", "LLMError",
                     <<"OPENAI_API_KEY is not set in environment.">>))
    /\ on_happy_path' = FALSE
    /\ UNCHANGED <<max_iterations, max_phase_retries, snapshot, model_text, action, err,
                   result, tool_call, parse_failures, terminal_dispatched, prompt,
                   last_verify>>

\* the rest of a loop pass once generate has returned `text`, with
\* parsed = safe_parse_action(text): dispatch (the collaborator answering `out`), apply
LoopPass(text, parsed, out) ==
    /\ pc = "generate"
    /\ model_text' = text
    /\ action' = IF parsed.raised THEN action ELSE parsed.action
    /\ err' = IF parsed.raised THEN err ELSE parsed.err
    /\ llm_calls' = llm_calls + 1
    /\ UNCHANGED <<max_iterations, max_phase_retries, snapshot, prompt>>
    /\ LET tool_name == parsed.action.tool_name
           args == parsed.action.args
           d == Dispatch(tool_name, args, out)
           applied == ~parsed.is_none /\ ~d.raised
                          /\ tool_name \in KnownTools \ {<<"save_file">>}
       IN  /\ result' = IF parsed.is_none THEN NoDispatch ELSE d
           /\ attempts' = IF applied THEN 0 ELSE attempts + 1
           /\ parse_failures' = IF applied THEN 0
                                ELSE IF parsed.is_none THEN parse_failures + 1
                                ELSE parse_failures
           /\ on_happy_path' =
                  /\ on_happy_path
                  /\ ~parsed.is_none
                  /\ tool_name = ExpectedTool(phase)
                  /\ ~d.raised
                  /\ tool_name = <<"run_checks">> => d.result.ok
           /\ last_verify' =
                  IF ~parsed.is_none /\ tool_name = <<"run_checks">> /\ ~d.raised
                  THEN [code |-> code, tests |-> tests, ok |-> d.result.ok,
                        checks |-> d.result.checks]
                  ELSE last_verify
           /\ terminal_dispatched' =
                  (terminal_dispatched
                   \/ (~parsed.is_none /\ tool_name \in {<<"save_file">>, <<"terminate">>}))
           /\ IF parsed.raised
              THEN /\ tool_call' = tool_call
                   /\ Propagate(Exc("safe_parse_action", parsed.etype, parsed.err))
              ELSE IF parsed.is_none
              THEN /\ tool_call' = tool_call
                   /\ RetryOrFail(Fault(Locals, ParseDiagnostic(parsed.err)),
                                  <<"Failed to parse action after retries. Last error: ">>
                                      \o parsed.err)
              ELSE /\ tool_call' = IF tool_name \in KnownTools
                                   THEN DispatchCall(tool_name, code, tests, last_checks)
                                   ELSE tool_call
                   /\ IF d.raised /\ ~CaughtByRun(d.etype)
                      THEN Propagate(Exc("_dispatch", d.etype, d.msg))
                      ELSE IF d.raised
                      THEN LET l == Fault(Locals, ToolDiagnostic(tool_name, d.etype, d.msg))
                           IN  RetryOrFail(l, <<"Tool execution failed after retries.", "\n">>
                                                  \o Join(l.last_checks))
                      ELSE IF tool_name = <<"write_code">>
                      THEN Continue(ApplyWriteCode(Locals, d.result))
                      ELSE IF tool_name = <<"write_docs">>
                      THEN Continue(ApplyWriteDocs(Locals, d.result))
                      ELSE IF tool_name = <<"write_tests">>
                      THEN Continue(ApplyWriteTests(Locals, d.result))
                      ELSE IF tool_name = <<"run_checks">>
                      THEN Continue(ApplyRunChecks(Locals, d.result))
                      ELSE IF tool_name = <<"save_file">>
                      THEN ReturnResult(Locals, AgentResult(TRUE,
                               <<"Generated code and tests successfully.">>,
                               d.result.file_paths, iteration + 1))
                      ELSE IF tool_name = <<"terminate">>
                      THEN ReturnResult(Locals, AgentResult(d.result.ok, d.result.summary,
                                                            NoPaths, iteration + 1))
                      ELSE LET l == Fault(Locals, UnknownDiagnostic(tool_name))
                           IN  RetryOrFail(l, <<"Unknown tool repeated. ">>
                                                  \o Join(l.last_checks))

\* a loop pass with the generator's answer and the collaborator's outcome chosen
GenerateAndApply ==
    \E text \in GenTexts :
        \E parsed \in {safe_parse_action(text)} :
            \E out \in ToolOutcomes(parsed.action.tool_name) :
                LoopPass(text, parsed, out)

Next == BuildSnapshot \/ LoopExit \/ GenerateRaises \/ GenerateAndApply

Spec == Init /\ [][Next]_vars

----------------------------------------------------------------------------
(* The parser called on its own *)

\* every document the model knows
Docs ==
    {DOC_WRITE_CODE, DOC_WRITE_DOCS, DOC_WRITE_TESTS, DOC_RUN_CHECKS, DOC_SAVE_FILE,
     DOC_TERMINATE, DOC_TERMINATE_OK, DOC_TERMINATE_FAIL, DOC_UNKNOWN, DOC_UNKNOWN_COLON,
     DOC_PADDED, DOC_BLANK_NAME, DOC_INT_NAME, DOC_NO_NAME, DOC_NULL_ARGS, DOC_LIST_ARGS,
     DOC_STR_ARGS, DOC_INT_ARGS, DOC_LIST, DOC_DEEP, DOC_BIGINT, DOC_SYNTAX}

TextChunks == {WS, FENCE, OPEN_LC, OPEN_UC, PROSE} \cup Docs

\* the bodies of a fenced block: nothing, blanks, one document
BlockBodies == {<<>>, <<WS>>} \cup {<<d>> : d \in Docs}

\* texts with two action blocks one after the other
TwoBlockTexts ==
    {pre \o <<o1>> \o b1 \o <<FENCE>> \o mid \o <<o2>> \o b2 \o <<FENCE>> :
        pre \in {<<>>, <<PROSE>>}, mid \in {<<>>, <<WS>>},
        o1 \in OpenFences, o2 \in {OPEN_LC}, b1 \in BlockBodies, b2 \in BlockBodies}

\* the texts given to the parser: every chunk sequence up to MaxTextLen, and the
\* texts with two blocks
ParseTexts ==
    UNION {[1..n -> TextChunks] : n \in 0..MaxTextLen} \cup TwoBlockTexts

ParseInit ==
    /\ model_text \in ParseTexts
    /\ pc = "parse"
    /\ max_iterations = 0
    /\ max_phase_retries = 0
    /\ phase = IMPLEMENT
    /\ iteration = 0
    /\ phase_retries = 0
    /\ code = <<>>
    /\ tests = <<>>
    /\ last_checks = <<>>
    /\ snapshot = NoSnapshot
    /\ action = NoAction
    /\ err = NoStr
    /\ result = NoDispatch
    /\ tool_call = NoCall
    /\ ret = NoResult
    /\ raised_exc = NoExc
    /\ llm_calls = 0
    /\ attempts = 0
    /\ parse_failures = 0
    /\ terminal_dispatched = FALSE
    /\ on_happy_path = TRUE
    /\ prompt = NoPrompt
    /\ last_verify = NoVerify

\* action, err = safe_parse_action(model_text)
SafeParse ==
    /\ pc = "parse"
    /\ \E parsed \in {safe_parse_action(model_text)} :
          /\ pc' = IF parsed.raised THEN "parse_raised" ELSE "parsed"
          /\ action' = parsed.action
          /\ err' = IF parsed.raised THEN NoStr ELSE parsed.err
          /\ raised_exc' = IF parsed.raised
                           THEN Exc("safe_parse_action", parsed.etype, parsed.err)
                           ELSE raised_exc
    /\ UNCHANGED <<max_iterations, max_phase_retries, phase, iteration, phase_retries,
                   code, tests, last_checks, snapshot, model_text, result, tool_call,
                   ret, llm_calls, attempts, parse_failures, terminal_dispatched,
                   on_happy_path, prompt, last_verify>>

ParseNext == SafeParse

ParseSpec == ParseInit /\ [][ParseNext]_vars

----------------------------------------------------------------------------
(* actions.py: Actions.run_checks called on its own *)

\* sub occurs in s
Contains(s, sub) ==
    \E i \in 0..(Len(s) - Len(sub)) : SubSeq(s, i + 1, i + Len(sub)) = sub

\* quality.get("min_tests", 3) or 3
DefaultMinTests == 3

\* the import statements a text can hold, and the module each one names
IMPORT_REQUESTS == "import requests\n"
IMPORT_UNITTEST == "import unittest\n"
FROM_F_IMPORT == "from f import f\n"
ImportedModule(chunk) ==
    CASE chunk = IMPORT_REQUESTS -> "requests"
      [] chunk = IMPORT_UNITTEST -> "unittest"
      [] chunk = FROM_F_IMPORT -> "f"
      [] OTHER -> ""
StdlibAllow ==
    {"typing", "types", "dataclasses", "enum", "re", "math", "json", "statistics", "random",
     "collections", "itertools", "functools", "operator", "datetime", "time",
     "pathlib", "os", "sys", "subprocess", "tempfile", "logging", "traceback",
     "unittest", "hashlib", "hmac", "secrets", "urllib", "http",
     "csv", "sqlite3", "decimal", "fractions"}

\* _detect_nonstdlib_imports(code + "\n" + tests, local_modules)
detect_nonstdlib_imports(text, local_modules) ==
    {ImportedModule(text[i]) : i \in 1..Len(text)} \ ({""} \cup local_modules \cup StdlibAllow)

\* len(re.findall(r"def\s+test_", tests))
TestMethods(t) == Cardinality({i \in 1..Len(t) : t[i] = "def test_"})

\* the specification document as run_checks reads it
SpecDoc(fn, stdlib_only, min_tests) ==
    [fn |-> fn, stdlib_only |-> stdlib_only, min_tests |-> min_tests]
NoMinTests == [val |-> 0, present |-> FALSE]
MinTests(n) == [val |-> n, present |-> TRUE]

\* what the temporary directory and the two subprocesses do: an exception (and
\* where), the return codes of py_compile and of unittest
CheckEnvs ==
    {[exc |-> e, compile_rc |-> c, test_rc |-> t] :
        e \in {"none"}, c \in {0, 1}, t \in {0, 1}}
    \cup {[exc |-> e, compile_rc |-> c, test_rc |-> 0] :
            e \in {"TemporaryDirectory", "unittest"}, c \in {0}}

\* the checks the try block appends
SubprocessChecks(env) ==
    IF env.exc = "TemporaryDirectory"
    THEN << <<"Exception during checks: ", "OSError", ": ", "No space left on device">> >>
    ELSE (IF env.compile_rc # 0
          THEN << <<"py_compile failed: ", "SyntaxError">> >> ELSE <<>>)
         \o (IF env.exc = "unittest"
             THEN << <<"Exception during checks: ", "FileNotFoundError", ": ", "python">> >>
             ELSE IF env.test_rc # 0
             THEN << <<"unittest failed: ", "E">> >> ELSE <<>>)

\* the checks appended before the try block
StaticChecks(spec, c, t) ==
    LET min_tests == IF ~spec.min_tests.present \/ spec.min_tests.val = 0
                     THEN DefaultMinTests ELSE spec.min_tests.val
        bad == detect_nonstdlib_imports(c \o <<"\n">> \o t, {spec.fn})
    IN  (IF ~Contains(c, <<"def ", spec.fn, "(">>)
         THEN << <<"Function definition not found: def ", spec.fn, "(...).">> >> ELSE <<>>)
        \o (IF spec.stdlib_only /\ bad # {}
            THEN << <<"Non-stdlib imports detected: ", ToString(bad)>> >> ELSE <<>>)
        \o (IF TestMethods(t) < min_tests
            THEN << <<"Not enough tests: found ", ToString(TestMethods(t)),
                      ", expected >= ", ToString(min_tests), ".">> >>
            ELSE <<>>)

\* mutant: ok reports only what the subprocesses said
run_checks_OkFromSubprocesses(spec, c, t, env) ==
    [ok |-> SubprocessChecks(env) = <<>>,
     checks |-> StaticChecks(spec, c, t) \o SubprocessChecks(env)]

\* Actions.run_checks: {"ok": len(checks) == 0, "checks": checks}
run_checks(spec, c, t, env) ==
    [ok |-> Len(StaticChecks(spec, c, t) \o SubprocessChecks(env)) = 0,
     checks |-> StaticChecks(spec, c, t) \o SubprocessChecks(env)]

\* the run_checks call under test
RunChecksCall(spec, c, t) ==
    [code |-> c, tests |-> t, tool |-> <<"run_checks">>, spec |-> spec]

CheckSpecs ==
    {SpecDoc("f", so, mt) :
        so \in BOOLEAN, mt \in {NoMinTests} \cup {MinTests(n) : n \in 0..(MaxTestMethods + 1)}}
CheckCodes ==
    {<<>>,
     <<"def ", "f", "(", "d): return 1">>,
     <<"def ", "g", "(", "d): return 1">>,
     <<IMPORT_REQUESTS, "def ", "f", "(", "d): return 1">>,
     <<"def ", "f", " (", "d): return 1">>}
RECURSIVE TestsWith(_)
TestsWith(n) == IF n = 0 THEN <<>> ELSE TestsWith(n - 1) \o <<"def test_", "x(self): ...">>
CheckTests ==
    {pre \o TestsWith(n) : pre \in {<<IMPORT_UNITTEST>>, <<IMPORT_UNITTEST, FROM_F_IMPORT>>},
                           n \in 0..MaxTestMethods}

ChecksInit ==
    /\ tool_call \in {RunChecksCall(sp, c, t) :
                          sp \in CheckSpecs, c \in CheckCodes, t \in CheckTests}
    /\ pc = "check"
    /\ max_iterations = 0
    /\ max_phase_retries = 0
    /\ phase = EVALUATE
    /\ iteration = 0
    /\ phase_retries = 0
    /\ code = <<>>
    /\ tests = <<>>
    /\ last_checks = <<>>
    /\ snapshot = NoSnapshot
    /\ model_text = <<>>
    /\ action = NoAction
    /\ err = NoStr
    /\ result = NoDispatch
    /\ ret = NoResult
    /\ raised_exc = NoExc
    /\ llm_calls = 0
    /\ attempts = 0
    /\ parse_failures = 0
    /\ terminal_dispatched = FALSE
    /\ on_happy_path = TRUE
    /\ prompt = NoPrompt
    /\ last_verify = NoVerify

\* result = self.actions.run_checks(spec=..., code=..., tests=..., ...)
RunChecks ==
    /\ pc = "check"
    /\ \E env \in CheckEnvs :
          result' = Returned(run_checks(tool_call.spec, tool_call.code, tool_call.tests, env))
    /\ pc' = "checked"
    /\ UNCHANGED <<max_iterations, max_phase_retries, phase, iteration, phase_retries,
                   code, tests, last_checks, snapshot, model_text, action, err, tool_call,
                   ret, raised_exc, llm_calls, attempts, parse_failures,
                   terminal_dispatched, on_happy_path, prompt, last_verify>>

ChecksNext == RunChecks

ChecksSpec == ChecksInit /\ [][ChecksNext]_vars

----------------------------------------------------------------------------
(* prompts.py: build_prompt called on a snapshot of the caller's making *)

\* the i-th message of a list of checks, oldest first
CheckMessage(i) == <<"check ", ToString(i)>>
ChecksOfLen(n) == [i \in 1..n |-> CheckMessage(i)]

\* last_checks: Optional[List[str]] = None
NoChecks == [val |-> <<>>, is_none |-> TRUE]
SomeChecks(list) == [val |-> list, is_none |-> FALSE]

PromptSnapshots ==
    {[phase |-> p, iteration |-> 0, phase_retries |-> 0, code |-> c, tests |-> t,
      last_checks |-> lc] :
        p \in Phase,
        c \in {<<>>, <<" ", "\n">>, <<"def ", "f", "(", "d): return 1">>},
        t \in {<<>>, <<"def test_", "x(self): ...">>},
        lc \in {NoChecks} \cup {SomeChecks(ChecksOfLen(n)) : n \in 0..MaxChecksLen}}

PromptInit ==
    /\ snapshot \in PromptSnapshots
    /\ pc = "prompt"
    /\ max_iterations = 0
    /\ max_phase_retries = 0
    /\ phase = IMPLEMENT
    /\ iteration = 0
    /\ phase_retries = 0
    /\ code = <<>>
    /\ tests = <<>>
    /\ last_checks = <<>>
    /\ model_text = <<>>
    /\ action = NoAction
    /\ err = NoStr
    /\ result = NoDispatch
    /\ tool_call = NoCall
    /\ ret = NoResult
    /\ raised_exc = NoExc
    /\ llm_calls = 0
    /\ attempts = 0
    /\ parse_failures = 0
    /\ terminal_dispatched = FALSE
    /\ on_happy_path = TRUE
    /\ prompt = NoPrompt
    /\ last_verify = NoVerify

\* prompt = build_prompt(snapshot)
BuildPrompt ==
    /\ pc = "prompt"
    /\ prompt' = build_prompt(snapshot)
    /\ pc' = "prompted"
    /\ UNCHANGED <<max_iterations, max_phase_retries, phase, iteration, phase_retries,
                   code, tests, last_checks, snapshot, model_text, action, err, result,
                   tool_call, ret, raised_exc, llm_calls, attempts, parse_failures,
                   terminal_dispatched, on_happy_path, last_verify>>

PromptNext == BuildPrompt

PromptSpec == PromptInit /\ [][PromptNext]_vars

----------------------------------------------------------------------------
(* Properties of Agent.run *)

\* a loop pass has ended and nothing has been rebuilt since: snapshot holds the locals
\* the pass started from, action/err/result what it parsed and dispatched
PassEnded == llm_calls > 0 /\ pc \in {"top", "returned"}
Parsed == action # NoAction
ToolApplied(tool_name) ==
    PassEnded /\ Parsed /\ action.tool_name = tool_name /\ ~result.raised

\* C1: when run_checks is dispatched successfully from phase Evaluate, ok=true leads
\* to Export and ok=false to Fix, and phase_retries is 0 either way: a verification
\* failure never increments phase_retries.
C1_VerifyRouting ==
    (ToolApplied(<<"run_checks">>) /\ snapshot.phase = EVALUATE) =>
        /\ phase = IF result.result.ok THEN EXPORT ELSE FIX
        /\ phase_retries = 0

C1_Witness ==
    /\ ToolApplied(<<"run_checks">>)
    /\ snapshot.phase = EVALUATE
    /\ snapshot.phase_retries > 0
    /\ ~result.result.ok
    /\ phase = FIX

\* C2: write_code in Implement leads to Docs, write_docs in Docs to Tests, write_tests
\* in Tests to Evaluate, write_code in Fix to Docs (never straight to Evaluate); each
\* of these resets phase_retries to 0.
C2_ProductionTransitions ==
    /\ (ToolApplied(<<"write_code">>) /\ snapshot.phase = IMPLEMENT) =>
            (phase = DOCS /\ phase_retries = 0)
    /\ (ToolApplied(<<"write_docs">>) /\ snapshot.phase = DOCS) =>
            (phase = TESTS /\ phase_retries = 0)
    /\ (ToolApplied(<<"write_tests">>) /\ snapshot.phase = TESTS) =>
            (phase = EVALUATE /\ phase_retries = 0)
    /\ (ToolApplied(<<"write_code">>) /\ snapshot.phase = FIX) =>
            (phase = DOCS /\ phase_retries = 0)

C2_Witness ==
    /\ ToolApplied(<<"write_code">>)
    /\ snapshot.phase = FIX
    /\ snapshot.phase_retries > 0
    /\ snapshot.last_checks.val = << ToolDiagnostic(<<"write_code">>, "RuntimeError", <<"boom">>) >>
    /\ phase = DOCS

\* C3: a run returns ok=true with artifact locations only when save_file was
\* dispatched while the phase was Export (so that a passing verification preceded it).
C3_ExportOnlyFromExportPhase ==
    (pc = "returned" /\ ret.ok /\ ret.file_paths # NoPaths) => snapshot.phase = EXPORT

\* C4: a terminate instruction ends the run with the ok flag it carries: Done when
\* the flag is true, Failed when it is false.
C4_TerminateOkFlag ==
    (pc = "returned" /\ Parsed /\ action.tool_name = <<"terminate">>
        /\ action.args.ok # "absent") =>
            ret.ok = (action.args.ok = "true")

\* the run has ended with every attempt of the current phase a parse failure
OnlyParseFailures == attempts > 0 /\ parse_failures = attempts
ParseFailureSummary == <<"Failed to parse action after retries. Last error: ">>

\* C5 as claimed: if parsing fails on every attempt within a phase the run ends with
\* ok=false after exactly max_phase_retries + 1 attempts in that phase, and the loop
\* passes never exceed max_iterations.
C5_FailsAfterExactlyBudgetPlusOne ==
    (pc = "returned" /\ OnlyParseFailures) =>
        /\ ~ret.ok
        /\ attempts = max_phase_retries + 1
        /\ llm_calls <= max_iterations

\* C5 as amended: if parsing fails on every attempt within a phase, the run ends with
\* ok=false after exactly max_phase_retries + 1 attempts in that phase when the
\* iteration budget leaves that many passes (never earlier, never later), and
\* otherwise at the iteration budget after fewer attempts; the loop passes never
\* exceed max_iterations.
C5_FailsAfterBudgetPlusOneOrAtIterationBudget ==
    /\ (pc = "returned" /\ OnlyParseFailures) =>
          /\ ~ret.ok
          /\ llm_calls <= max_iterations
          /\ \/ /\ attempts = max_phase_retries + 1
                /\ phase_retries = max_phase_retries + 1
                /\ ret.iterations = llm_calls
                /\ SubSeq(ret.summary, 1, 1) = ParseFailureSummary
             \/ /\ attempts <= max_phase_retries
                /\ llm_calls = max_iterations
                /\ ret.iterations = max_iterations
                /\ SubSeq(ret.summary, 1, 1) = <<"Exceeded max_iterations=">>
    /\ (pc \in {"top", "generate"} /\ parse_failures = attempts) =>
          attempts <= max_phase_retries

C5_Witness ==
    /\ pc = "returned"
    /\ OnlyParseFailures
    /\ phase = TESTS
    /\ max_phase_retries = 2
    /\ attempts = 3
    /\ llm_calls < max_iterations

\* C6 as claimed: if neither save_file nor terminate is ever dispatched, the run
\* returns ok=false after exactly max_iterations loop passes.
C6_EndsAtExactlyIterationBudget ==
    (pc = "returned" /\ ~terminal_dispatched) =>
        /\ ~ret.ok
        /\ llm_calls = max_iterations
        /\ ret.iterations = max_iterations

\* C6 as amended: if neither save_file nor terminate is ever dispatched, every result
\* the run returns has ok=false and is returned either on the pass that makes
\* phase_retries exceed max_phase_retries or after exactly max_iterations loop
\* passes; no pass is begun beyond the iteration budget.
C6_EndsAtRetryOrIterationBudget ==
    /\ (pc = "returned" /\ ~terminal_dispatched) =>
          /\ ~ret.ok
          /\ \/ /\ phase_retries > max_phase_retries
                /\ llm_calls <= max_iterations
             \/ /\ phase_retries <= max_phase_retries
                /\ llm_calls = max_iterations
                /\ ret.iterations = max_iterations
                /\ iteration = max_iterations
    /\ pc = "generate" => llm_calls < max_iterations

C6_Witness ==
    /\ pc = "returned"
    /\ ~terminal_dispatched
    /\ max_iterations >= 3
    /\ llm_calls = max_iterations
    /\ phase_retries <= max_phase_retries
    /\ phase = EVALUATE

\* the last pass ended in a fault and the run goes on
FaultedAndGoesOn == pc = "top" /\ llm_calls > 0 /\ (~Parsed \/ result.raised)

\* C7: on every parse failure, raising tool or unrecognized tool name that does not
\* end the run, phase, code and tests are unchanged and phase_retries grows by
\* exactly 1.
C7_FaultFrame ==
    FaultedAndGoesOn =>
        /\ phase = snapshot.phase
        /\ code = snapshot.code
        /\ tests = snapshot.tests
        /\ phase_retries = snapshot.phase_retries + 1

C7_Witness ==
    /\ FaultedAndGoesOn
    /\ Parsed
    /\ action.tool_name = <<"deploy">>
    /\ phase = FIX
    /\ code # <<>>
    /\ tests # <<>>
    /\ phase_retries = 2

\* C8: when llm.generate raises, nothing is raised to the caller of run: the fault
\* is counted as a fault of that iteration and the loop goes on.
C8_GenerateFaultNotRaised == ~(pc = "raised" /\ raised_exc.origin = "llm.generate")

\* a diagnostic that names the tool, the exception's type and its message
NamesFault(diagnostic) ==
    /\ Contains(diagnostic, action.tool_name)
    /\ Contains(diagnostic, <<result.etype>>)
    /\ Contains(diagnostic, result.msg)

ToolRaised == Parsed /\ result.raised /\ action.tool_name \in KnownTools

\* C9: when a tool collaborator raises, nothing is raised to the caller of run; the
\* fault becomes a diagnostic naming the tool, the exception's type and its message,
\* which is the last_checks of the next snapshot, or is in the summary of the failure
\* result when the retry budget is thereby exceeded.
C9_ToolFaultBecomesDiagnostic ==
    /\ pc = "raised" => raised_exc.origin # "_dispatch"
    /\ (PassEnded /\ ToolRaised) =>
          /\ Len(last_checks) = 1
          /\ NamesFault(last_checks[1])
          /\ phase_retries > max_phase_retries =>
                /\ pc = "returned"
                /\ ~ret.ok
                /\ Contains(ret.summary, last_checks[1])
    /\ (pc = "generate" /\ llm_calls > 0 /\ ToolRaised) =>
          /\ ~snapshot.last_checks.is_none
          /\ Len(snapshot.last_checks.val) = 1
          /\ NamesFault(snapshot.last_checks.val[1])

C9_Witness ==
    /\ pc = "generate"
    /\ llm_calls > 0
    /\ ToolRaised
    /\ action.tool_name = <<"run_checks">>
    /\ result.etype = "KeyError"
    /\ snapshot.last_checks.val =
          << <<"ToolExecutionError in ", "run_checks", ": ", "KeyError", ": ", "'name'">> >>

\* C10: every result with ok=false comes from exceeding the phase-retry budget or from
\* using up the iteration budget.
C10_FailureOnlyByBudgets ==
    (pc = "returned" /\ ~ret.ok) =>
        \/ phase_retries > max_phase_retries /\ ret.iterations = iteration + 1
        \/ iteration >= max_iterations /\ ret.iterations = iteration

C10_Witness ==
    /\ pc = "returned"
    /\ ~ret.ok
    /\ phase = EXPORT
    /\ phase_retries > max_phase_retries
    /\ terminal_dispatched

\* the run returned the result of a save_file that was dispatched and did not raise
ReturnedBySaveFile ==
    pc = "returned" /\ ret.ok /\ Parsed /\ action.tool_name = <<"save_file">> /\ ~result.raised

\* C11 as claimed: every result with ok=true carries the artifact locations, which are
\* the mapping save_file returned; every result with ok=false carries none.
C11_OkIffFilePaths ==
    pc = "returned" =>
        IF ret.ok
        THEN ReturnedBySaveFile /\ ret.file_paths = result.result.file_paths
        ELSE ret.file_paths = NoPaths

\* C11 as amended: a result returned through save_file has ok=true and carries the
\* mapping save_file returned; every other result carries no locations: each result
\* with ok=false, and the ok=true result that a terminate instruction produces.
C11_FilePathsIffSaveFile ==
    pc = "returned" =>
        /\ ReturnedBySaveFile =>
              /\ ret.file_paths # NoPaths
              /\ ret.file_paths = result.result.file_paths
        /\ ~ReturnedBySaveFile => ret.file_paths = NoPaths
        /\ ~ret.ok => ret.file_paths = NoPaths
        /\ (ret.ok /\ ~ReturnedBySaveFile) => (Parsed /\ action.tool_name = <<"terminate">>)

C11_Witness ==
    /\ ReturnedBySaveFile
    /\ snapshot.phase = EXPORT
    /\ ret.file_paths = FilePaths
    /\ ret.iterations = 5

\* the last pass dispatched a tool name that no branch of _dispatch knows
UnknownToolDispatched ==
    PassEnded /\ Parsed /\ action.tool_name \notin KnownTools \cup {<<"terminate">>}

\* C12: dispatching an unrecognized tool name never raises out of run; it leaves one
\* diagnostic that contains the literal tool name, counts as exactly one retry
\* (phase_retries + 1, same phase, same code and tests), and the run goes on unless
\* the retry budget is thereby exceeded.
C12_UnknownToolIsRetryFault ==
    /\ ~(pc = "raised" /\ raised_exc.origin = "_dispatch"
            /\ action.tool_name \notin KnownTools)
    /\ UnknownToolDispatched =>
          /\ result.raised
          /\ Len(last_checks) = 1
          /\ Contains(last_checks[1], action.tool_name)
          /\ phase = snapshot.phase
          /\ code = snapshot.code
          /\ tests = snapshot.tests
          /\ phase_retries = snapshot.phase_retries + 1
          /\ IF phase_retries > max_phase_retries
             THEN pc = "returned" /\ ~ret.ok /\ Contains(ret.summary, action.tool_name)
             ELSE /\ iteration = snapshot.iteration + 1
                  /\ pc = "returned" =>
                        (iteration >= max_iterations /\ ret.iterations = iteration)

C12_Witness ==
    /\ UnknownToolDispatched
    /\ pc = "top"
    /\ phase = EVALUATE
    /\ phase_retries = 1
    /\ iteration < max_iterations
    /\ last_checks =
          << <<"ToolExecutionError in ", "deploy", ": ", "ValueError", ": ",
               "Unknown tool_name: ", "deploy">> >>

\* the faults the collaborator behind a known tool can raise
CollaboratorFaults(tool_name) == {o \in ToolOutcomes(tool_name) : o.raised}

\* C13: the diagnostic (and the failure summary) recorded for an unrecognized tool
\* name differs from every diagnostic (and summary) that a raising collaborator of a
\* known tool can leave.
C13_UnknownToolOwnFaultKind ==
    UnknownToolDispatched =>
        \A k \in KnownTools : \A f \in CollaboratorFaults(k) :
            /\ last_checks[1] # ToolDiagnostic(k, f.etype, f.msg)
            /\ (pc = "returned" /\ phase_retries > max_phase_retries) =>
                  ret.summary # <<"Tool execution failed after retries.", "\n">>
                                     \o ToolDiagnostic(k, f.etype, f.msg)

\* the phases of a run in which nothing goes wrong, in order
HappyPhases == <<IMPLEMENT, DOCS, TESTS, EVALUATE, EXPORT>>

\* C18: when the generator always names the tool of the current phase, every tool
\* returns and run_checks reports ok=true, a run with max_iterations >= 5 goes through
\* Implement, Docs, Tests, Evaluate, Export in that order and returns ok=true with
\* iterations = 5 and a file_paths mapping of exactly two entries.
C18_HappyPath ==
    (on_happy_path /\ max_iterations >= 5) =>
        /\ llm_calls <= 5
        /\ llm_calls < 5 =>
              /\ pc \in {"top", "generate"}
              /\ phase = HappyPhases[llm_calls + 1]
              /\ pc = "generate" => snapshot.phase = HappyPhases[llm_calls + 1]
        /\ llm_calls = 5 =>
              /\ pc = "returned"
              /\ snapshot.phase = EXPORT
              /\ ret.ok
              /\ ret.iterations = 5
              /\ ret.file_paths # NoPaths
              /\ Cardinality(DOMAIN ret.file_paths) = 2

C18_Witness ==
    /\ on_happy_path
    /\ max_iterations >= 5
    /\ pc = "returned"
    /\ ret.ok
    /\ ret.iterations = 5
    /\ DOMAIN ret.file_paths = {"module", "tests"}

\* C19: iteration grows by exactly 1 per loop pass: the snapshots built in a run carry
\* 0, 1, 2, ... with no value skipped or repeated, whichever way a pass ends (parse
\* failure, raising tool, unrecognized tool, applied tool).
C19_IterationCountsPasses ==
    /\ pc \in {"top", "generate"} => iteration = llm_calls
    /\ pc = "generate" => snapshot.iteration = llm_calls
    /\ (pc = "top" /\ llm_calls > 0) => iteration = snapshot.iteration + 1

C19_Witness ==
    /\ pc = "generate"
    /\ snapshot.iteration = 3
    /\ snapshot.phase = DOCS
    /\ snapshot.phase_retries = 2
    /\ Parsed
    /\ action.tool_name = <<"deploy">>
    /\ parse_failures = 1

\* C20: every run ends exactly once with exactly one result, by a used-up budget or
\* by save_file or terminate, after at most max_iterations calls of the generator,
\* provided the calls of the generator and of the tools return.
C20_EndsOnceWithOneResult ==
    /\ llm_calls <= max_iterations
    /\ pc = "raised" => raised_exc.origin = "llm.generate"
    /\ pc \in {"top", "generate"} => ret = NoResult
    /\ pc = "returned" =>
          /\ ret # NoResult
          /\ \/ phase_retries > max_phase_retries
             \/ iteration >= max_iterations
             \/ terminal_dispatched

\* the pass before the snapshot in hand was a run_checks that reported ok=false
BuiltAfterFailedVerify ==
    /\ pc = "generate"
    /\ llm_calls > 0
    /\ Parsed
    /\ action.tool_name = <<"run_checks">>
    /\ ~result.raised
    /\ ~result.result.ok

\* the last pass dispatched write_code from the snapshot built after a failed verify
WriteCodeAfterFailedVerify ==
    /\ PassEnded
    /\ Parsed
    /\ action.tool_name = <<"write_code">>
    /\ snapshot.phase = FIX
    /\ snapshot.phase_retries = 0

\* C21: after run_checks reports ok=false the list of checks it returned goes forward
\* verbatim: the next snapshot (phase Fix) holds exactly that list, in that order, and
\* a write_code dispatched from that snapshot receives it as failed_checks.
C21_FailedChecksCarriedForward ==
    /\ BuiltAfterFailedVerify =>
          /\ snapshot.phase = FIX
          /\ ~snapshot.last_checks.is_none
          /\ snapshot.last_checks.val = result.result.checks
          /\ last_verify.checks = result.result.checks
          /\ Contains(prompt, Join(RenderedChecks(result.result.checks)))
    /\ WriteCodeAfterFailedVerify =>
          /\ ~last_verify.ok
          /\ snapshot.last_checks.val = last_verify.checks
          /\ tool_call = Call(<<"write_code">>, snapshot.code, <<>>, last_verify.checks)

C21_Witness ==
    /\ WriteCodeAfterFailedVerify
    /\ ~result.raised
    /\ phase = DOCS
    /\ Len(tool_call.failed_checks) = 2
    /\ tool_call.failed_checks[2] = <<"unittest failed: E">>
    /\ code # snapshot.code

\* the instruction of a prompt: what follows its last rule line
InstructionOf(pr) ==
    LET last == CHOOSE i \in 1..Len(pr) :
                    pr[i] = RULE /\ \A j \in (i + 1)..Len(pr) : pr[j] # RULE
    IN  SubSeq(pr, last + 1, Len(pr))

\* the tool names an instruction gives
NamedTools(instr) ==
    {<<instr[i + 1]>> : i \in {k \in 1..(Len(instr) - 1) : instr[k] = "- tool_name: "}}

\* the tool each phase is to name
ToolClaimedFor(p) ==
    CASE p \in {IMPLEMENT, FIX} -> <<"write_code">>
      [] p = DOCS -> <<"write_docs">>
      [] p = TESTS -> <<"write_tests">>
      [] p = EVALUATE -> <<"run_checks">>
      [] p = EXPORT -> <<"save_file">>

\* C22: for every phase the prompt built from a snapshot ends with an instruction that
\* names exactly one tool_name, the one of the phase (write_code for Implement and
\* Fix, write_docs for Docs, write_tests for Tests, run_checks for Evaluate, save_file
\* for Export); an answer that names the instructed tool is never an unrecognized
\* tool.
C22_InstructionNamesPhaseTool ==
    /\ pc = "generate" =>
          /\ Cardinality({k \in 1..Len(InstructionOf(prompt)) :
                              InstructionOf(prompt)[k] = "- tool_name: "}) = 1
          /\ NamedTools(InstructionOf(prompt)) = {ToolClaimedFor(snapshot.phase)}
          /\ prompt[Len(prompt) - 1] = ToolClaimedFor(snapshot.phase)[1]
    /\ (PassEnded /\ Parsed /\ NamedTools(InstructionOf(prompt)) = {action.tool_name}) =>
          /\ action.tool_name \in KnownTools
          /\ ~UnknownToolDispatched
          /\ ~(result.raised /\ result.etype = "ValueError")

C22_Witness ==
    /\ PassEnded
    /\ Parsed
    /\ snapshot.phase = FIX
    /\ NamedTools(InstructionOf(prompt)) = {<<"write_code">>}
    /\ action.tool_name = <<"write_code">>
    /\ Contains(prompt, <<"\nLAST_CHECKS:\n", "- ", "Not enough tests: found 0, expected >= 3.">>)
    /\ phase = DOCS

\* the diagnostics a snapshot holds
HeldChecks(s) == IF s.last_checks.is_none THEN <<>> ELSE s.last_checks.val

\* the last pass failed to parse and the loop goes on
ParseFailedAndGoesOn == FaultedAndGoesOn /\ ~Parsed

\* C24: on a parse failure the protocol-fault diagnostic is appended to the
\* diagnostics the run already holds: the messages the snapshot of the failed pass
\* held are still there, followed by the new diagnostic.
C24_ParseDiagnosticAppended ==
    ParseFailedAndGoesOn =>
        last_checks = HeldChecks(snapshot) \o <<ParseDiagnostic(err)>>

\* what the code does instead: the new diagnostic replaces the list
C24_ParseDiagnosticReplaces ==
    ParseFailedAndGoesOn => last_checks = <<ParseDiagnostic(err)>>

\* a parse failure in phase Fix, with the list of the failed verify in the snapshot
C24_Witness ==
    /\ ParseFailedAndGoesOn
    /\ snapshot.phase = FIX
    /\ Len(HeldChecks(snapshot)) = 2
    /\ last_verify # NoVerify
    /\ HeldChecks(snapshot) = last_verify.checks

\* C25: whenever the phase is Export, the code and the tests in hand are exactly the
\* pair handed to the most recent run_checks call that reported, and that call
\* reported ok=true: neither a fault nor the application of a tool leaves the run in
\* phase Export with artifacts changed after their last successful verification.
\* (A run_checks call that raises reports nothing and changes neither the phase
\* nor the artifacts.)
C25_ExportHoldsVerifiedPair ==
    phase = EXPORT =>
        /\ last_verify # NoVerify
        /\ last_verify.ok
        /\ code = last_verify.code
        /\ tests = last_verify.tests

\* a fault in phase Export: the generator's answer did not parse, the phase is kept
C25_Witness ==
    /\ ParseFailedAndGoesOn
    /\ snapshot.phase = EXPORT
    /\ phase = EXPORT
    /\ last_verify.ok
    /\ code = last_verify.code
    /\ code # <<>>
    /\ tests # <<>>

\* the last pass dispatched a recognized tool with success and the loop goes on
AppliedTool(t) ==
    /\ pc = "top"
    /\ llm_calls > 0
    /\ Parsed
    /\ action.tool_name = t
    /\ ~result.raised

\* the last pass applied a tool the phase of its snapshot did not expect
AppliedUnexpected(t) == AppliedTool(t) /\ ExpectedTool(snapshot.phase) # t

\* C26: a recognized tool dispatched with success is applied whatever the phase: the
\* next phase depends on the tool name and its outcome only (write_code -> Docs,
\* write_docs -> Tests, write_tests -> Evaluate, run_checks -> Export when ok and
\* Fix when not), phase_retries is reset to 0 and the pass counts as one iteration,
\* also when the tool is not the one the phase expects.
C26_UnexpectedToolApplied ==
    \A t \in {<<"write_code">>, <<"write_docs">>, <<"write_tests">>, <<"run_checks">>} :
        AppliedTool(t) =>
            /\ phase = CASE t = <<"write_code">> -> DOCS
                         [] t = <<"write_docs">> -> TESTS
                         [] t = <<"write_tests">> -> EVALUATE
                         [] t = <<"run_checks">> ->
                                IF result.result.ok THEN EXPORT ELSE FIX
            /\ phase_retries = 0
            /\ iteration = snapshot.iteration + 1
            /\ t \in {<<"write_code">>, <<"write_docs">>} => code = result.result.code
            /\ t = <<"write_tests">> => tests = result.result.tests
            /\ t = <<"run_checks">> => last_checks = result.result.checks
            /\ t # <<"run_checks">> => last_checks = <<>>

\* write_code applied in phase Tests after a fault: Docs, and the retry is forgotten
C26_Witness ==
    /\ AppliedUnexpected(<<"write_code">>)
    /\ snapshot.phase = TESTS
    /\ snapshot.phase_retries > 0
    /\ phase = DOCS
    /\ phase_retries = 0

\* run_checks applied in phase Implement
C26_WitnessRunChecks ==
    /\ AppliedUnexpected(<<"run_checks">>)
    /\ snapshot.phase = IMPLEMENT
    /\ phase = FIX

\* a snapshot has just been built: a loop pass starts
PassStarts == pc = "generate"

\* C27: at the start of every loop pass 0 <= iteration < max_iterations,
\* 0 <= phase_retries <= max_phase_retries and phase_retries <= iteration, for every
\* max_phase_retries >= 0 and whatever the generator and the tools answered; and
\* phase_retries is the number of consecutive faults just before the pass.
C27_CountersWithinBudgets ==
    PassStarts =>
        /\ 0 <= snapshot.iteration
        /\ snapshot.iteration < max_iterations
        /\ snapshot.iteration = iteration
        /\ 0 <= snapshot.phase_retries
        /\ snapshot.phase_retries <= max_phase_retries
        /\ snapshot.phase_retries <= snapshot.iteration
        /\ snapshot.phase_retries = phase_retries
        /\ snapshot.phase_retries = attempts

\* the last pass the budgets allow, begun after as many faults as are tolerated and
\* after an earlier tool was applied
C27_Witness ==
    /\ PassStarts
    /\ max_phase_retries = 2
    /\ snapshot.phase_retries = max_phase_retries
    /\ attempts = 2
    /\ snapshot.iteration = max_iterations - 1
    /\ snapshot.iteration > snapshot.phase_retries
    /\ snapshot.phase # IMPLEMENT

\* the four ways run returns
ReturnedByRetryBudget ==
    pc = "returned" /\ llm_calls > 0 /\ (~Parsed \/ result.raised) /\ iteration < max_iterations
ReturnedByIterationBudget == pc = "returned" /\ iteration >= max_iterations
ReturnedByExport ==
    pc = "returned" /\ Parsed /\ ~result.raised /\ action.tool_name = <<"save_file">>
ReturnedByTerminate ==
    pc = "returned" /\ Parsed /\ ~result.raised /\ action.tool_name = <<"terminate">>

\* C28: on every return of run (retry budget, iteration budget, export, terminate)
\* the iterations field of the result equals the number of generator calls made
\* during the run, and lies between 1 and max_iterations when max_iterations >= 1.
C28_IterationsCountGeneratorCalls ==
    pc = "returned" =>
        /\ ret.iterations = llm_calls
        /\ max_iterations >= 1 => (1 <= ret.iterations /\ ret.iterations <= max_iterations)
        /\ \/ ReturnedByRetryBudget
           \/ ReturnedByIterationBudget
           \/ ReturnedByExport
           \/ ReturnedByTerminate

\* a retry-budget failure on the third generator call, before the iteration budget
C28_Witness ==
    /\ ReturnedByRetryBudget
    /\ ~ret.ok
    /\ ret.iterations = 3
    /\ llm_calls = 3
    /\ max_iterations = 5
    /\ max_phase_retries = 1

C28_WitnessIterationBudget ==
    ReturnedByIterationBudget /\ ret.iterations = max_iterations /\ max_iterations = 4
C28_WitnessExport == ReturnedByExport /\ ret.ok /\ ret.iterations = 5 /\ llm_calls = 5
C28_WitnessTerminate == ReturnedByTerminate /\ ret.iterations = 2 /\ llm_calls = 2

----------------------------------------------------------------------------
(* Properties of the parser *)

ParseEnded == pc \in {"parsed", "parse_raised"}

\* the text has an opening marker <fence>action (in either case) with a run of three
\* backquotes somewhere after it
HasActionBlock(text) ==
    \E i \in 1..Len(text) : \E j \in (i + 1)..Len(text) :
        text[i] \in OpenFences /\ text[j] \in Backticks

\* C14: for every text without a fenced action block the parser returns a failure and
\* never an Action: parse_action raises ActionParseError and safe_parse_action
\* returns (None, message).
C14_NoBlockNoAction ==
    (ParseEnded /\ ~HasActionBlock(model_text)) =>
        /\ pc = "parsed"
        /\ action = NoAction
        /\ err \in {<<"Empty model response; expected an <fence>action<fence> block.">>,
                    <<"No <fence>action<fence> block found in model response.">>}
        /\ parse_action(model_text).raised
        /\ parse_action(model_text).etype = "ActionParseError"

C14_Witness ==
    /\ pc = "parsed"
    /\ model_text = <<FENCE, DOC_WRITE_CODE, FENCE>>
    /\ action = NoAction
    /\ err = <<"No <fence>action<fence> block found in model response.">>

\* the blocks a scan of the text finds one after the other
RECURSIVE NumBlocks(_)
NumBlocks(text) ==
    IF \A i \in 1..Len(text) : text[i] \notin OpenFences \/ FenceCloses(text, i) = {}
    THEN 0
    ELSE LET i == Min({k \in 1..Len(text) :
                          text[k] \in OpenFences /\ FenceCloses(text, k) # {}})
             j == Min(FenceCloses(text, i))
         IN  1 + NumBlocks(SubSeq(text, j + 1, Len(text)))

\* the body of the first block, and the first block as a text of its own
FirstBlockBody(text) ==
    LET i == Min({k \in 1..Len(text) : text[k] \in OpenFences /\ FenceCloses(text, k) # {}})
        j == Min(FenceCloses(text, i))
    IN  SubSeq(text, i + 1, j - 1)
FirstBlockAlone(text) == <<OPEN_LC>> \o FirstBlockBody(text) \o <<FENCE>>

\* documents that are valid actions, with the Action each one stands for
WellFormedDocs == {DOC_WRITE_CODE, DOC_RUN_CHECKS, DOC_TERMINATE_FAIL, DOC_UNKNOWN}
ActionOf(doc) == Action(json_loads(doc).tool_name.val, json_loads(doc).args)

\* C15: when a text holds two or more action blocks only the first governs: the
\* result is the result of parsing the first block alone; a valid first block gives
\* its tool_name and args whatever follows, a blank or malformed first block gives a
\* failure even when a later block is well-formed.
C15_FirstBlockGoverns ==
    (ParseEnded /\ NumBlocks(model_text) >= 2) =>
        LET alone == safe_parse_action(FirstBlockAlone(model_text))
            body == Strip(FirstBlockBody(model_text))
        IN  /\ (pc = "parse_raised") = alone.raised
            /\ pc = "parsed" => (action = alone.action /\ err = alone.err)
            /\ body = <<>> =>
                  /\ pc = "parsed"
                  /\ action = NoAction
                  /\ err = <<"Found <fence>action<fence> block but it was empty.">>
            /\ (Len(body) = 1 /\ body[1] \in WellFormedDocs) =>
                  (pc = "parsed" /\ action = ActionOf(body[1]) /\ err = NoStr)
            /\ (Len(body) = 1 /\ body[1] \in {DOC_SYNTAX, DOC_LIST, DOC_NO_NAME}) =>
                  (pc = "parsed" /\ action = NoAction /\ err # NoStr)

C15_Witness ==
    /\ pc = "parsed"
    /\ model_text = <<PROSE, OPEN_UC, DOC_SYNTAX, FENCE, WS, OPEN_LC, DOC_WRITE_CODE, FENCE>>
    /\ action = NoAction
    /\ err = <<"Invalid JSON inside action block: ", "JSONDecodeError">>

\* C16: safe_parse_action never raises: for every text it returns either an Action
\* and no error, or no Action and a failure message.
C16_SafeParseNeverRaises ==
    ParseEnded =>
        /\ pc = "parsed"
        /\ \/ action # NoAction /\ err = NoStr
           \/ action = NoAction /\ err # NoStr

\* the object in the text's block, when the block holds one JSON object whose
\* tool_name is valid
HasValidName(text) ==
    /\ ~extract_action_block(text).raised
    /\ ~parse_action_json(extract_action_block(text).val).raised
    /\ LET tool_name == parse_action_json(extract_action_block(text).val).val.tool_name
       IN  tool_name.type = "str" /\ Strip(tool_name.val) # <<>>
ArgsField(text) == parse_action_json(extract_action_block(text).val).val.args

\* C17: args defaults to the empty mapping only when it is absent; when present it
\* must be a mapping, and every other present value (null, list, string, number) is
\* rejected with a parse failure.
C17_ArgsDefaultOnlyWhenAbsent ==
    (pc = "parsed" /\ HasValidName(model_text)) =>
        /\ ArgsField(model_text).type = "absent" =>
              (action # NoAction /\ action.args = EmptyDict)
        /\ ArgsField(model_text).type = "dict" =>
              (action # NoAction /\ action.args = ArgsField(model_text))
        /\ ArgsField(model_text).type \notin {"absent", "dict"} =>
              /\ action = NoAction
              /\ err = <<"Action JSON 'args' must be an object/dict.">>

----------------------------------------------------------------------------
(* Properties of run_checks *)

\* the code handed to run_checks has no definition of the specification's function
LacksDefinition == ~Contains(tool_call.code, <<"def ", tool_call.spec.fn, "(">>)

----------------------------------------------------------------------------
(* Properties of build_prompt *)

\* the checks section that renders the messages `shown`, as it stands in a prompt:
\* the header, one prefixed line per message, then the rule line
ChecksSection(shown) ==
    <<"\nLAST_CHECKS:\n">> \o Join([i \in 1..Len(shown) |-> <<"- ">> \o shown[i]])
        \o <<"\n", RULE>>

\* the number of prefixed lines in a prompt
PrefixedLines(pr) == Cardinality({i \in 1..Len(pr) : pr[i] = "- "})

\* the first and the last n of a list (the whole list when it is shorter)
FirstOf(list, n) == SubSeq(list, 1, IF Len(list) < n THEN Len(list) ELSE n)
LastOf(list, n) == SubSeq(list, IF Len(list) < n THEN 1 ELSE Len(list) - n + 1, Len(list))

\* the prompt has no checks section
NoChecksSection == \A i \in 1..Len(prompt) : prompt[i] # "\nLAST_CHECKS:\n"

\* C29: the prompt renders at most 10 of the snapshot's check messages, each with a
\* prefix; when the snapshot holds more than 10, the ones rendered are the 10 most
\* recent (the last 10 of the list), in order; and the section is left out when the
\* list is empty or absent.
C29_RendersMostRecentTen ==
    pc = "prompted" =>
        IF HeldChecks(snapshot) = <<>>
        THEN NoChecksSection
        ELSE /\ PrefixedLines(prompt) <= MaxRenderedChecks
             /\ Contains(prompt, ChecksSection(LastOf(HeldChecks(snapshot), MaxRenderedChecks)))

\* what the code renders: the first 10 of the list
C29_RendersFirstTen ==
    pc = "prompted" =>
        IF HeldChecks(snapshot) = <<>>
        THEN NoChecksSection
        ELSE /\ PrefixedLines(prompt) <= MaxRenderedChecks
             /\ Contains(prompt, ChecksSection(FirstOf(HeldChecks(snapshot), MaxRenderedChecks)))

\* a snapshot with eleven messages: the newest is the one left out
C29_Witness ==
    /\ pc = "prompted"
    /\ Len(HeldChecks(snapshot)) = MaxRenderedChecks + 1
    /\ PrefixedLines(prompt) = MaxRenderedChecks
    /\ Contains(prompt, <<"- ">> \o CheckMessage(1))
    /\ ~Contains(prompt, <<"- ">> \o CheckMessage(MaxRenderedChecks + 1))

====
